---- MODULE Spec2Model ----
(***************************************************************************)
(* Customer walk-in and test-drive dashboard (app.py): the loader          *)
(* load_data and the script main, which Streamlit runs top to bottom on    *)
(* every interaction.                                                      *)
(*                                                                         *)
(* A spreadsheet is a sequence of headers and a sequence of rows, a row    *)
(* being a sequence of cells.  A header is a sequence of one-character     *)
(* strings.  A cell is [k, v]: k = "blank" (an empty cell, NaN),           *)
(* k = "text" (a string that is neither a number nor a date), k = "num"    *)
(* (the integer v), k = "day" (the calendar date v days after 1970-01-01). *)
(* A conversion rate is an exact fraction <<n, d>> in lowest terms, d > 0. *)
(***************************************************************************)
EXTENDS Integers, Sequences, FiniteSets, TLC

VARIABLES file, legacyApply, cache, widget, out

vars == <<file, legacyApply, cache, widget, out>>

(***************************************************************************)
(* Bounds of the model.                                                    *)
(***************************************************************************)
MaxCols == 3

MaxRows == 2

(***************************************************************************)
(* Generic helpers.                                                        *)
(***************************************************************************)
Abs(n) == IF n < 0 THEN -n ELSE n

RECURSIVE GCD(_, _)
GCD(a, b) == IF b = 0 THEN a ELSE GCD(b, a % b)

\* the fraction n/d (d > 0) in lowest terms
Rat(n, d) ==
    LET g == GCD(Abs(n), d)
    IN  <<n \div g, d \div g>>

RatLess(a, b) == a[1] * b[2] < b[1] * a[2]

RatLeq(a, b) == a[1] * b[2] <= b[1] * a[2]

RatAdd(a, b) == Rat(a[1] * b[2] + b[1] * a[2], a[2] * b[2])

RECURSIVE SeqSum(_)
SeqSum(s) == IF s = <<>> THEN 0 ELSE s[1] + SeqSum(Tail(s))

RECURSIVE RatSum(_)
RatSum(s) == IF s = <<>> THEN <<0, 1>> ELSE RatAdd(s[1], RatSum(Tail(s)))

Range(s) == {s[i] : i \in DOMAIN s}

(***************************************************************************)
(* Cells.                                                                  *)
(***************************************************************************)
Blank == [k |-> "blank", v |-> 0]

Text == [k |-> "text", v |-> 0]

Num(n) == [k |-> "num", v |-> n]

Day(d) == [k |-> "day", v |-> d]

(***************************************************************************)
(* load_data, lines 19-32: column inference.                               *)
(***************************************************************************)
Upper == <<"A","B","C","D","E","F","G","H","I","J","K","L","M",
           "N","O","P","Q","R","S","T","U","V","W","X","Y","Z">>

Lower == <<"a","b","c","d","e","f","g","h","i","j","k","l","m",
           "n","o","p","q","r","s","t","u","v","w","x","y","z">>

\* str.lower of one character
LowerChar(c) ==
    IF \E i \in DOMAIN Upper : Upper[i] = c
    THEN Lower[CHOOSE i \in DOMAIN Upper : Upper[i] = c]
    ELSE c

\* c.lower()
lower(h) == [i \in DOMAIN h |-> LowerChar(h[i])]

RECURSIVE lstrip(_)
lstrip(h) == IF h # <<>> /\ h[1] = " " THEN lstrip(Tail(h)) ELSE h

RECURSIVE rstrip(_)
rstrip(h) ==
    IF h # <<>> /\ h[Len(h)] = " " THEN rstrip(SubSeq(h, 1, Len(h) - 1)) ELSE h

\* str(c).strip()
strip(h) == rstrip(lstrip(h))

\* sub in h
Contains(h, sub) ==
    \E i \in 1..(Len(h) - Len(sub) + 1) : SubSeq(h, i, i + Len(sub) - 1) = sub

NoTarget == "(unmapped)"

\* RenameTarget with the tests for "date" and "walk" in the other order
RenameTargetWalkFirst(c) ==
    LET lc == lower(c)
    IN  IF Contains(lc, <<"w","a","l","k">>) THEN "Walk-in Customer"
        ELSE IF Contains(lc, <<"d","a","t","e">>) THEN "Date"
        ELSE IF Contains(lc, <<"t","e","s","t">>)
                /\ Contains(lc, <<"d","r","i","v","e">>) THEN "Test Drive"
        ELSE NoTarget

\* the if / elif chain of the renaming loop: the new name of column c
RenameTarget(c) ==
    LET lc == lower(c)
    IN  IF Contains(lc, <<"d","a","t","e">>) THEN "Date"
        ELSE IF Contains(lc, <<"w","a","l","k">>) THEN "Walk-in Customer"
        ELSE IF Contains(lc, <<"t","e","s","t">>)
                /\ Contains(lc, <<"d","r","i","v","e">>) THEN "Test Drive"
        ELSE NoTarget

\* df.rename(columns=rename_map): the name of every source column afterwards
RenamedColumns(headers) == [j \in DOMAIN headers |-> RenameTarget(strip(headers[j]))]

required_cols == <<"Date", "Walk-in Customer", "Test Drive">>

\* the source columns that carry the name c after the renaming
SourcesOf(names, c) == {j \in DOMAIN names : names[j] = c}

\* existing = [c for c in required_cols if c in df.columns]
Existing(names) ==
    LET Present(c) == SourcesOf(names, c) # {}
    IN  SelectSeq(required_cols, Present)

\* df[existing] keeps every column that carries a kept name: a name that two
\* source columns carry selects both, and df[name] is then a table, not a column
IsDuplicated(names, c) == Cardinality(SourcesOf(names, c)) > 1

SourceOf(names, c) == CHOOSE j \in SourcesOf(names, c) : TRUE

(***************************************************************************)
(* load_data, lines 39-65: row cleaning and the derived metric.            *)
(***************************************************************************)
\* Series.isna() of one cell
isna(cell) == cell.k = "blank"

\* pd.to_datetime (errors="raise") fails on a string that is no date
DateParseFails(cell) == cell.k = "text"

\* pd.to_datetime(...).dt.date of one cell: a date stays that date, an integer
\* is a count of nanoseconds after 1970-01-01 and so falls on that day
to_date(cell) ==
    CASE cell.k = "day" -> cell.v
      [] cell.k = "num" -> 0

\* to_count with fillna(1)
to_count_fill1(cell) ==
    CASE cell.k = "num" -> cell.v
      [] cell.k = "text" -> 1
      [] cell.k = "blank" -> 1

\* pd.to_numeric(errors="coerce").fillna(0).astype(int) of one cell
to_count(cell) ==
    CASE cell.k = "num" -> cell.v
      [] cell.k = "text" -> 0
      [] cell.k = "blank" -> 0

\* ConversionRate as a ratio, without the factor 100
ConversionRateNoPercent(walk, test) ==
    IF walk > 0 THEN Rat(test, walk) ELSE <<0, 1>>

\* the lambda of df.apply: the conversion rate of one row
ConversionRate(walk, test) ==
    IF walk > 0 THEN Rat(test * 100, walk) ELSE <<0, 1>>

\* df = df[~df["Date"].isna()]: the source rows that stay
KeptRows(names, rows) ==
    IF SourcesOf(names, "Date") = {} THEN rows
    ELSE LET j == SourceOf(names, "Date")
             HasDate(r) == ~isna(r[j])
         IN  SelectSeq(rows, HasDate)

\* the columns of the returned table, in order
OutputColumns(names) ==
    LET existing == Existing(names)
    IN  IF {"Walk-in Customer", "Test Drive"} \subseteq Range(existing)
        THEN existing \o <<"Conversion Rate">>
        ELSE existing

\* one cleaned row: a function from the output columns to their values;
\* src gives the source column of each kept name
CleanRow(cols, src, r) ==
    LET walk == to_count(r[src["Walk-in Customer"]])
        test == to_count(r[src["Test Drive"]])
    IN  [c \in Range(cols) |->
            CASE c = "Date" -> to_date(r[src["Date"]])
              [] c = "Walk-in Customer" -> walk
              [] c = "Test Drive" -> test
              [] c = "Conversion Rate" -> ConversionRate(walk, test)]

\* whether load_data raises instead of returning:
\*  - a name carried by two source columns makes df[name] a table, which
\*    pd.to_datetime and pd.to_numeric reject;
\*  - pd.to_datetime raises on a date cell it cannot parse;
\*  - df.apply on a table without rows returns a table in older pandas
\*    releases (legacy), which cannot be assigned to one column.
LoadRaises(names, rows, legacy) ==
    LET kept == KeptRows(names, rows)
    IN  \/ \E c \in Range(Existing(names)) : IsDuplicated(names, c)
        \/ /\ SourcesOf(names, "Date") # {}
           /\ \E i \in DOMAIN kept : DateParseFails(kept[i][SourceOf(names, "Date")])
        \/ /\ "Conversion Rate" \in Range(OutputColumns(names))
           /\ kept = <<>>
           /\ legacy

Raised == [err |-> TRUE, cols |-> <<>>, rows |-> <<>>]

\* load_data(file): the cleaned table, or Raised
load_data(f, legacy) ==
    LET names == RenamedColumns(f.headers)
    IN  IF LoadRaises(names, f.rows, legacy) THEN Raised
        ELSE LET kept == KeptRows(names, f.rows)
                 cols == OutputColumns(names)
                 src == [c \in Range(Existing(names)) |-> SourceOf(names, c)]
             IN  [err |-> FALSE,
                  cols |-> cols,
                  rows |-> [i \in DOMAIN kept |-> CleanRow(cols, src, kept[i])]]

(***************************************************************************)
(* main, lines 88-114: the empty checks and the date-range filter.         *)
(***************************************************************************)
\* df.empty: no rows or no columns
IsEmpty(cols, rows) == cols = <<>> \/ rows = <<>>

Column(rows, c) == [i \in DOMAIN rows |-> rows[i][c]]

SeqMin(s) == CHOOSE x \in Range(s) : \A y \in Range(s) : x <= y

SeqMax(s) == CHOOSE x \in Range(s) : \A y \in Range(s) : x >= y

\* what st.sidebar.date_input returns: the pair the user completed, the one
\* date of a selection still in progress, or the default (min_date, max_date)
DateInput(w, min_date, max_date) == IF w = <<>> THEN <<min_date, max_date>> ELSE w

\* start_date, end_date of lines 105-108
DateRange(date_range, min_date, max_date) ==
    IF Len(date_range) = 2 THEN date_range ELSE <<min_date, max_date>>

\* df[(df["Date"] >= start_date) & (df["Date"] <= end_date)]
FilterRows(rows, start_date, end_date) ==
    LET InRange(r) == r["Date"] >= start_date /\ r["Date"] <= end_date
    IN  SelectSeq(rows, InRange)

\* the table main works on after line 110
Filtered(cols, rows, w) ==
    IF "Date" \in Range(cols)
    THEN LET min_date == SeqMin(Column(rows, "Date"))
             max_date == SeqMax(Column(rows, "Date"))
             dr == DateRange(DateInput(w, min_date, max_date), min_date, max_date)
         IN  FilterRows(rows, dr[1], dr[2])
    ELSE rows

(***************************************************************************)
(* main, lines 116-128: the KPI section.                                   *)
(***************************************************************************)
Kpis(cols, rows) ==
    LET has(c) == c \in Range(cols)
        total_walkins ==
            IF has("Walk-in Customer") THEN SeqSum(Column(rows, "Walk-in Customer")) ELSE 0
        total_testdrives ==
            IF has("Test Drive") THEN SeqSum(Column(rows, "Test Drive")) ELSE 0
        total_days ==
            IF has("Date") THEN Cardinality(Range(Column(rows, "Date"))) ELSE Len(rows)
    IN  [total_walkins |-> total_walkins,
         total_testdrives |-> total_testdrives,
         total_days |-> total_days,
         avg_walkins |->
            IF total_days > 0 THEN Rat(total_walkins, total_days) ELSE <<0, 1>>,
         overall_conversion |->
            IF total_walkins > 0 THEN Rat(total_testdrives * 100, total_walkins)
            ELSE <<0, 1>>]

NoKpis ==
    [total_walkins |-> 0, total_testdrives |-> 0, total_days |-> 0,
     avg_walkins |-> <<0, 1>>, overall_conversion |-> <<0, 1>>]

(***************************************************************************)
(* main, lines 154-176: performance by day of week.                        *)
(***************************************************************************)
weekday_order ==
    <<"Monday", "Tuesday", "Wednesday", "Thursday", "Friday", "Saturday", "Sunday">>

\* pd.to_datetime(d).dt.day_name(): 1970-01-01 was a Thursday
day_name(d) == weekday_order[((d + 3) % 7) + 1]

\* the group of one weekday: tmp.groupby("Weekday").agg(...) has a line for
\* the weekdays with rows; reindex adds a line of NaN for each of the others
WeekdayLine(rows, wd) ==
    LET OnDay(r) == day_name(r["Date"]) = wd
        grp == SelectSeq(rows, OnDay)
    IN  IF grp = <<>>
        THEN [Weekday |-> wd, nan |-> TRUE, Walk_ins |-> 0, Test_Drives |-> 0,
              Avg_Conversion |-> <<0, 1>>]
        ELSE LET total == RatSum(Column(grp, "Conversion Rate"))
             IN  [Weekday |-> wd, nan |-> FALSE,
                  Walk_ins |-> SeqSum(Column(grp, "Walk-in Customer")),
                  Test_Drives |-> SeqSum(Column(grp, "Test Drive")),
                  Avg_Conversion |-> Rat(total[1], total[2] * Len(grp))]

\* agg.reindex(weekday_order)
Reindexed(rows) == [i \in DOMAIN weekday_order |-> WeekdayLine(rows, weekday_order[i])]

\* WeekdayAgg without the dropna
WeekdayAggKeepNaN(rows) == Reindexed(rows)

\* .dropna(how="all")
WeekdayAgg(rows) ==
    LET NotAllNaN(line) == ~line.nan
    IN  SelectSeq(Reindexed(rows), NotAllNaN)

(***************************************************************************)
(* main, lines 198-204: the cumulative series.                             *)
(***************************************************************************)
RECURSIVE InsertByDate(_, _)
\* r placed after every row of the sorted s whose date is not later
InsertByDate(s, r) ==
    IF s = <<>> THEN <<r>>
    ELSE IF s[Len(s)]["Date"] <= r["Date"] THEN Append(s, r)
    ELSE Append(InsertByDate(SubSeq(s, 1, Len(s) - 1), r), s[Len(s)])

RECURSIVE SortByDate(_)
\* df.sort_values("Date"): rows of one date keep their order (the sort of a
\* table this small is an insertion sort)
SortByDate(rows) ==
    IF rows = <<>> THEN <<>>
    ELSE InsertByDate(SortByDate(SubSeq(rows, 1, Len(rows) - 1)), rows[Len(rows)])

\* Series.cumsum()
CumSum(s) == [i \in DOMAIN s |-> SeqSum(SubSeq(s, 1, i))]

Cumulative(rows) ==
    LET sorted == SortByDate(rows)
        walk == CumSum(Column(sorted, "Walk-in Customer"))
        test == CumSum(Column(sorted, "Test Drive"))
    IN  [i \in DOMAIN sorted |->
            [Date |-> sorted[i]["Date"],
             Cumulative_Walk_ins |-> walk[i],
             Cumulative_Test_Drives |-> test[i]]]

(***************************************************************************)
(* main, lines 206-223: the distribution of the conversion rate.           *)
(***************************************************************************)
bins == << <<-1, 10>>, <<0, 1>>, <<10, 1>>, <<20, 1>>, <<30, 1>>, <<40, 1>>, <<100, 1>> >>

labels == <<"0%", "0-10%", "10-20%", "20-30%", "30-40%", "40%+">>

NoBand == "NaN"

\* pd.cut(rate, bins, labels): the label of the interval (bins[i], bins[i+1]]
\* that holds the rate, NaN when none does
ConversionBand(rate) ==
    IF \E i \in DOMAIN labels : RatLess(bins[i], rate) /\ RatLeq(rate, bins[i + 1])
    THEN labels[CHOOSE i \in DOMAIN labels :
                    RatLess(bins[i], rate) /\ RatLeq(rate, bins[i + 1])]
    ELSE NoBand

\* value_counts().sort_index(): the days of every band, in the order of labels
BandCounts(rows) ==
    [i \in DOMAIN labels |->
        [band |-> labels[i],
         days |-> Cardinality({j \in DOMAIN rows :
                                 ConversionBand(rows[j]["Conversion Rate"]) = labels[i]})]]

(***************************************************************************)
(* main, lines 143-233: the five tabs, in the order the script runs them.  *)
(* A view is "rendered", "skipped" by its guard, or raises "KeyError" on a *)
(* column the table lacks; what follows a raise is "not_reached".          *)
(***************************************************************************)
Views == <<"daily", "weekday", "conversion", "cumulative", "distribution", "raw">>

ViewOutcome(name, cols) ==
    LET has(c) == c \in Range(cols)
    IN  CASE name = "daily" ->
                IF has("Date")
                THEN IF has("Walk-in Customer") /\ has("Test Drive")
                     THEN "rendered" ELSE "KeyError"
                ELSE "skipped"
          [] name = "weekday" ->
                IF has("Date")
                THEN IF has("Walk-in Customer") /\ has("Test Drive")
                        /\ has("Conversion Rate")
                     THEN "rendered" ELSE "KeyError"
                ELSE "skipped"
          [] name = "conversion" ->
                IF has("Conversion Rate") /\ has("Date") THEN "rendered" ELSE "skipped"
          [] name = "cumulative" ->
                IF has("Date")
                THEN IF has("Walk-in Customer") /\ has("Test Drive")
                     THEN "rendered" ELSE "KeyError"
                ELSE "skipped"
          [] name = "distribution" ->
                IF has("Conversion Rate") THEN "rendered" ELSE "skipped"
          [] name = "raw" -> "rendered"

\* the outcome of every view of one run
RunViews(cols) ==
    [i \in DOMAIN Views |->
        IF \E j \in 1..(i - 1) : ViewOutcome(Views[j], cols) = "KeyError"
        THEN "not_reached"
        ELSE ViewOutcome(Views[i], cols)]

ViewIndex(name) == CHOOSE i \in DOMAIN Views : Views[i] = name

NotRun ==
    [status |-> "not_run", cols |-> <<>>, view |-> <<>>, kpis |-> NoKpis,
     views |-> [i \in DOMAIN Views |-> "not_reached"],
     agg |-> <<>>, cum |-> <<>>, bands |-> <<>>]

\* one run of main on the loaded table with the widget state w
main(table, w) ==
    IF table.err THEN [NotRun EXCEPT !.status = "load_error"]
    ELSE IF IsEmpty(table.cols, table.rows)
    THEN [NotRun EXCEPT !.status = "no_valid_data", !.cols = table.cols]
    ELSE LET cols == table.cols
             df == Filtered(cols, table.rows, w)
             views == RunViews(cols)
             Rendered(name) == views[ViewIndex(name)] = "rendered"
         IN  IF IsEmpty(cols, df)
             THEN [NotRun EXCEPT !.status = "no_data_in_range", !.cols = cols]
             ELSE [status |-> IF "KeyError" \in Range(views) THEN "key_error" ELSE "done",
                   cols |-> cols,
                   view |-> df,
                   kpis |-> Kpis(cols, df),
                   views |-> views,
                   agg |-> IF Rendered("weekday") THEN WeekdayAgg(df) ELSE <<>>,
                   cum |-> IF Rendered("cumulative") THEN Cumulative(df) ELSE <<>>,
                   bands |-> IF Rendered("distribution") THEN BandCounts(df) ELSE <<>>]

(***************************************************************************)
(* load_data, lines 16-18: st.cache_data keeps the table load_data         *)
(* returned and hands it to every later run; a raise is not kept.          *)
(***************************************************************************)
Loaded(c, f, legacy) == IF c # <<>> THEN c[1] ELSE load_data(f, legacy)

\* CacheAfter when the filter writes into the cached table
CacheAfterFiltered(c, table, view) ==
    IF table.err THEN <<>> ELSE <<[table EXCEPT !.rows = view]>>

\* the cache after a run that loaded `table` and showed the rows `view`
CacheAfter(c, table, view) ==
    IF c # <<>> THEN c ELSE IF table.err THEN <<>> ELSE <<table>>

(***************************************************************************)
(* The spreadsheets of the model.                                          *)
(***************************************************************************)
HVisitDate == <<"V","i","s","i","t"," ","D","a","t","e">>

HWalkIns == <<"W","a","l","k","-","i","n","s">>

HTestDrive == <<"T","e","s","t","-","D","r","i","v","e"," ","C","o","u","n","t">>

\* holds "walk" and "date", in capitals, between blanks
HWalkDate == <<" ","W","A","L","K"," ","D","A","T","E"," ">>

\* holds "test" without "drive"
HTest == <<"T","e","s","t">>

HWalkInCustomer == <<"W","a","l","k","-","i","n"," ","C","u","s","t","o","m","e","r">>

HTestDriveName == <<"T","e","s","t"," ","D","r","i","v","e">>

Headers == {HVisitDate, HWalkIns, HTestDrive, HWalkDate, HTest, HWalkInCustomer, HTestDriveName}

\* pd.read_excel gives every column a name of its own
Injective(h) == \A i \in DOMAIN h : \A j \in DOMAIN h : h[i] = h[j] => i = j

SeqsUpTo(S, n) == UNION {[1..k -> S] : k \in 0..n}

Canonical == <<HVisitDate, HWalkIns, HTestDrive>>

\* 2024-01-01 (a Monday), 2024-01-02; 2024-01-07 (a Sunday) to 2024-01-09
Jan(d) == 19722 + d

\* any headers, one row whose cell in column j is the integer j
ColumnFiles ==
    {[headers |-> h, rows |-> << [j \in DOMAIN h |-> Num(j)] >>] :
        h \in {x \in SeqsUpTo(Headers, MaxCols) : Injective(x)}}

\* the expected headers, rows with every kind of date cell
DateFiles ==
    {[headers |-> Canonical, rows |-> rs] :
        rs \in SeqsUpTo({<<d, w, Num(1)>> :
                            d \in {Blank, Text, Day(Jan(7)), Day(Jan(8)), Day(Jan(9))},
                            w \in {Num(-1), Num(2)}}, MaxRows)}

\* the expected headers, rows of one day with every kind of count cell
CountFiles ==
    {[headers |-> Canonical, rows |-> rs] :
        rs \in SeqsUpTo({<<Day(Jan(8)), w, t>> :
                            w \in {Text, Num(-1), Num(0), Num(2)},
                            t \in {Text, Num(-1), Num(0), Num(2)}}, MaxRows)}

\* the expected headers, one row, counts that reach every conversion band
RateFiles ==
    {[headers |-> Canonical, rows |-> << <<Day(Jan(8)), w, t>> >>] :
        w \in {Blank, Num(0), Num(5), Num(8), Num(10)},
        t \in {Blank} \cup {Num(n) : n \in {-1, 0, 1, 2, 3, 4, 5, 11}}}

\* the three rows of the scenario of the specification
ScenarioFile ==
    [headers |-> Canonical,
     rows |-> << <<Day(Jan(1)), Num(10), Num(2)>>,
                 <<Day(Jan(2)), Num(0), Num(5)>>,
                 <<Day(Jan(2)), Num(5), Text>> >>]

Files == ColumnFiles \cup DateFiles \cup CountFiles \cup RateFiles \cup {ScenarioFile}

(***************************************************************************)
(* The state machine: the file on disk, the pandas release, the cache of   *)
(* load_data, the date range the user left in the sidebar, and what the    *)
(* last run of the script put on the page.                                 *)
(***************************************************************************)
Init ==
    /\ file \in Files
    /\ legacyApply \in BOOLEAN
    /\ cache = <<>>
    /\ widget = <<>>
    /\ out = NotRun

\* one run of the script with the widget state w
RunScript(w) ==
    LET table == Loaded(cache, file, legacyApply)
        res == main(table, w)
    IN  /\ out' = res
        /\ cache' = CacheAfter(cache, table, res.view)
        /\ widget' = w
        /\ UNCHANGED <<file, legacyApply>>

\* the page is opened
FirstRun ==
    /\ out.status = "not_run"
    /\ RunScript(<<>>)

\* the date widget is on the page once a run got as far as line 98
HasDateWidget ==
    /\ out.status \in {"no_data_in_range", "key_error", "done"}
    /\ "Date" \in Range(out.cols)

\* the dates the widget offers: min_value to max_value
Offered ==
    LET dates == Column(cache[1].rows, "Date")
    IN  SeqMin(dates)..SeqMax(dates)

\* the user completes a date range
SelectRange ==
    /\ HasDateWidget
    /\ \E s \in Offered : \E e \in Offered : s <= e /\ RunScript(<<s, e>>)

\* the user has picked the first date of a range only
SelectStart ==
    /\ HasDateWidget
    /\ \E s \in Offered : RunScript(<<s>>)

\* any other interaction (a tab, the download button) runs the script again
Rerun ==
    /\ out.status # "not_run"
    /\ RunScript(widget)

Next == FirstRun \/ SelectRange \/ SelectStart \/ Rerun

Spec == Init /\ [][Next]_vars

(***************************************************************************)
(* Properties.  What they say of the loaded table is said of cache[1], the *)
(* table load_data returned; of a run, of out.                             *)
(***************************************************************************)
LoadCalled == out.status # "not_run"

LoadReturned == cache # <<>>

HasColumn(table, c) == c \in Range(table.cols)

\* the file has the three expected headers, at least one row, and a date in
\* the date cell of every row: no row is dropped and nothing stops the load
CleanDates ==
    /\ file.headers = Canonical
    /\ file.rows # <<>>
    /\ \A i \in DOMAIN file.rows : file.rows[i][1].k = "day"

\* C1: in every row of the loaded table that has both counts, the conversion
\* rate is test_drives / walk_ins * 100 when walk_ins > 0 and 0 when
\* walk_ins = 0, always a number; and the load of a file with integer or
\* dirty counts and proper dates returns a table.
C1_ConversionRate ==
    /\ LoadReturned /\ HasColumn(cache[1], "Conversion Rate") =>
          \A i \in DOMAIN cache[1].rows :
              LET r == cache[1].rows[i]
                  rate == r["Conversion Rate"]
              IN  /\ rate[2] > 0
                  /\ r["Walk-in Customer"] > 0 =>
                        rate[1] * r["Walk-in Customer"] = r["Test Drive"] * 100 * rate[2]
                  /\ r["Walk-in Customer"] = 0 => rate[1] = 0
    /\ LoadCalled /\ CleanDates => LoadReturned

\* a loaded table with a row of no walk-ins but test drives, and a row with both
C1_Witness ==
    /\ LoadReturned
    /\ HasColumn(cache[1], "Conversion Rate")
    /\ \E i \in DOMAIN cache[1].rows :
          cache[1].rows[i]["Walk-in Customer"] = 0 /\ cache[1].rows[i]["Test Drive"] > 0
    /\ \E i \in DOMAIN cache[1].rows :
          cache[1].rows[i]["Walk-in Customer"] > 0 /\ cache[1].rows[i]["Test Drive"] > 0

\* C2: a count cell that is no number (text, blank) becomes 0 and a number
\* stays; the row is kept, the load returns, and the table has as many rows
\* as the file; the scenario's three rows get the rates 20, 0, 0.
C2_DirtyCountsBecomeZero ==
    /\ LoadCalled /\ CleanDates =>
          /\ LoadReturned
          /\ Len(cache[1].rows) = Len(file.rows)
          /\ \A i \in DOMAIN file.rows : \A j \in 2..3 :
                LET cell == file.rows[i][j]
                    got == cache[1].rows[i][required_cols[j]]
                IN  /\ cell.k \in {"text", "blank"} => got = 0
                    /\ cell.k = "num" => got = cell.v
    /\ LoadCalled /\ file = ScenarioFile =>
          /\ LoadReturned
          /\ Column(cache[1].rows, "Conversion Rate") = << <<20, 1>>, <<0, 1>>, <<0, 1>> >>

\* the scenario's file is loaded: its third row holds the text "bad"
C2_Witness ==
    /\ LoadReturned
    /\ file = ScenarioFile
    /\ file.rows[3][3].k = "text"
    /\ cache[1].rows[3]["Test Drive"] = 0

Has(h, word) == Contains(lower(h), word)

DateLike(h) == Has(h, <<"d","a","t","e">>)

WalkLike(h) == ~DateLike(h) /\ Has(h, <<"w","a","l","k">>)

TestLike(h) ==
    /\ ~DateLike(h)
    /\ ~Has(h, <<"w","a","l","k">>)
    /\ Has(h, <<"t","e","s","t">>)
    /\ Has(h, <<"d","r","i","v","e">>)

\* C4: the loaded table has the column Date exactly when a header holds
\* "date"; Walk-in Customer exactly when a header holds "walk" and not
\* "date"; Test Drive exactly when a header holds "test" and "drive" and
\* neither of the others; and besides these at most Conversion Rate.
C4_ColumnInference ==
    LoadReturned =>
        LET hs == Range(file.headers)
            cols == Range(cache[1].cols)
        IN  /\ "Date" \in cols <=> \E h \in hs : DateLike(h)
            /\ "Walk-in Customer" \in cols <=> \E h \in hs : WalkLike(h)
            /\ "Test Drive" \in cols <=> \E h \in hs : TestLike(h)
            /\ cols \subseteq {"Date", "Walk-in Customer", "Test Drive", "Conversion Rate"}
            /\ Len(cache[1].cols) = Cardinality(cols)

\* a file whose headers include one with "walk" and "date" and one with
\* "test" alone is loaded: its only column is Date
C4_Witness ==
    /\ LoadReturned
    /\ HWalkDate \in Range(file.headers)
    /\ HTest \in Range(file.headers)
    /\ cache[1].cols = <<"Date">>

\* C5 (as claimed): when two source columns map to Date, the load returns a
\* table with one Date column that holds the later source column's values.
C5_Claim ==
    LoadCalled /\ Cardinality({j \in DOMAIN file.headers : DateLike(file.headers[j])}) > 1
               /\ (\A i \in DOMAIN file.rows : \A j \in DOMAIN file.headers :
                       file.rows[i][j].k = "num") =>
        LET last == CHOOSE j \in DOMAIN file.headers :
                        /\ DateLike(file.headers[j])
                        /\ \A k \in DOMAIN file.headers : DateLike(file.headers[k]) => k <= j
        IN  /\ LoadReturned
            /\ Cardinality({i \in DOMAIN cache[1].cols : cache[1].cols[i] = "Date"}) = 1
            /\ Len(cache[1].rows) = Len(file.rows)
            /\ \A i \in DOMAIN file.rows :
                  cache[1].rows[i]["Date"] = to_date(file.rows[i][last])

\* the rate lies in the interval the claim gives band i
InClaimedBand(rate, i) ==
    CASE i = 1 -> rate[1] = 0
      [] i \in 2..5 -> RatLess(<<(i - 2) * 10, 1>>, rate) /\ RatLeq(rate, <<(i - 1) * 10, 1>>)
      [] i = 6 -> RatLess(<<40, 1>>, rate)

\* C6 (as claimed): the days of each band are the rows whose rate is 0, in
\* (0,10], (10,20], (20,30], (30,40], above 40; the bands are in this order
\* and their days sum to the number of rows.
C6_Claim ==
    out.status = "done" /\ out.bands # <<>> =>
        /\ [i \in DOMAIN out.bands |-> out.bands[i].band] = labels
        /\ \A i \in DOMAIN out.bands :
              out.bands[i].days =
                  Cardinality({j \in DOMAIN out.view :
                                  InClaimedBand(out.view[j]["Conversion Rate"], i)})
        /\ SeqSum([i \in DOMAIN out.bands |-> out.bands[i].days]) = Len(out.view)

\* C7 (as claimed): whatever subset of the three columns the file has, a run
\* on a table with at least one row ends without raising.
C7_Claim ==
    LoadReturned /\ cache[1].rows # <<>> => out.status # "key_error"

\* C8 (as claimed): the cumulative series never decreases from one row to
\* the next, in either column.
C8_Claim ==
    \A i \in 1..(Len(out.cum) - 1) :
        /\ out.cum[i].Cumulative_Walk_ins <= out.cum[i + 1].Cumulative_Walk_ins
        /\ out.cum[i].Cumulative_Test_Drives <= out.cum[i + 1].Cumulative_Test_Drives

\* the place of a date in the week, 1 for Monday: 2024-01-01 was a Monday
PlaceInWeek(d) == ((d - 19723) % 7) + 1

PlaceOfName(wd) == CHOOSE i \in DOMAIN weekday_order : weekday_order[i] = wd

\* C9: the weekday table has one line for each weekday that has a row of the
\* filtered table and no other, from Monday to Sunday, with the sums of the
\* two counts and the mean of the conversion rate over the weekday's rows.
C9_WeekdayAggregation ==
    out.status = "done" /\ out.views[ViewIndex("weekday")] = "rendered" =>
        LET agg == out.agg
            place == [i \in DOMAIN agg |-> PlaceOfName(agg[i].Weekday)]
        IN  /\ Range(place) = {PlaceInWeek(out.view[j]["Date"]) : j \in DOMAIN out.view}
            /\ \A i \in 1..(Len(agg) - 1) : place[i] < place[i + 1]
            /\ \A i \in DOMAIN agg :
                  LET OnDay(r) == PlaceInWeek(r["Date"]) = place[i]
                      grp == SelectSeq(out.view, OnDay)
                      total == RatSum(Column(grp, "Conversion Rate"))
                  IN  /\ agg[i].Walk_ins = SeqSum(Column(grp, "Walk-in Customer"))
                      /\ agg[i].Test_Drives = SeqSum(Column(grp, "Test Drive"))
                      /\ agg[i].Avg_Conversion[1] * total[2] * Len(grp)
                            = total[1] * agg[i].Avg_Conversion[2]

\* rows of a Sunday and of the Monday after it, in this order: the table
\* lists Monday first
C9_Witness ==
    /\ out.status = "done"
    /\ Len(out.view) = 2
    /\ out.view[1]["Date"] = Jan(7)
    /\ out.view[2]["Date"] = Jan(8)
    /\ Len(out.agg) = 2
    /\ out.agg[1].Weekday = "Monday"
    /\ out.agg[2].Weekday = "Sunday"

\* the range a run filters by: the completed pair, else every date
RangeInForce(rows) ==
    IF Len(widget) = 2 THEN widget
    ELSE <<SeqMin(Column(rows, "Date")), SeqMax(Column(rows, "Date"))>>

\* C10: the cached table is the table load_data makes of the file, whatever
\* ranges were selected before; and the rows a run shows are exactly its
\* rows with start <= date <= end, in order, unchanged.
C10_FilterLeavesLoadedTable ==
    LoadReturned =>
        /\ cache[1] = load_data(file, legacyApply)
        /\ HasColumn(cache[1], "Date") /\ cache[1].rows # <<>> =>
              LET rows == cache[1].rows
                  rng == RangeInForce(rows)
                  inside == {i \in DOMAIN rows :
                                rng[1] <= rows[i]["Date"] /\ rows[i]["Date"] <= rng[2]}
              IN  /\ Len(out.view) = Cardinality(inside)
                  /\ \A k \in DOMAIN out.view :
                        \E i \in inside :
                            /\ Cardinality({m \in inside : m < i}) = k - 1
                            /\ out.view[k] = rows[i]
                  /\ out.status = "no_data_in_range" <=> inside = {}

\* the scenario's file filtered to 2024-01-02 alone: its two rows of that
\* day are shown, and the cache still holds all three
C10_Witness ==
    /\ LoadReturned
    /\ widget = <<Jan(2), Jan(2)>>
    /\ Len(cache[1].rows) = 3
    /\ Len(out.view) = 2
    /\ out.view[1]["Date"] = Jan(2)
    /\ out.view[2]["Date"] = Jan(2)
====
